---- MODULE Spec2Model ----
(***************************************************************************)
(* A model of the fast_fmt crate: the Write sinks (bounded byte slice,     *)
(* String, Transformer), the Fmt renderables (str, char, integers, Empty,  *)
(* Chain, Instantiated, Transformed) and the fwrite! macro.                *)
(*                                                                         *)
(* A char is its Unicode scalar value, a str the sequence of its chars, a  *)
(* byte a number in 0..255.  A sink is a record; every sink carries a      *)
(* ghost field log, the calls it has received during the current           *)
(* operation.  A Write operation returns [w |-> the sink afterwards,       *)
(* res |-> "Ok" or the sink's error].                                      *)
(***************************************************************************)
EXTENDS Integers, Sequences, FiniteSets, TLC

VARIABLES writer, last, nops

vars == <<writer, last, nops>>

RECURSIVE write_char(_, _)
RECURSIVE write_each(_, _)
RECURSIVE fmt(_, _, _, _)
RECURSIVE size_hint(_, _)
RECURSIVE Written(_)
RECURSIVE ClearLog(_)
RECURSIVE uses_size_hint(_)
RECURSIVE sink_size_hint(_, _)

(***************************************************************************)
(* Bounds of the model.                                                    *)
(***************************************************************************)
\* Capacities 0..MaxCap of the bounded byte-slice sinks.
MaxCap == 3

\* Operations performed on one sink in a run.
MaxOps == 2

\* A String takes further operations while it holds at most MaxFill bytes.
MaxFill == 2

(***************************************************************************)
(* Characters and UTF-8.                                                   *)
(***************************************************************************)
Max(a, b) == IF a >= b THEN a ELSE b

RECURSIVE Flatten(_)
Flatten(ss) == IF ss = <<>> THEN <<>> ELSE Head(ss) \o Flatten(Tail(ss))

\* char::encode_utf8: the UTF-8 bytes of a scalar value.
encode_utf8(c) ==
    IF c < 128 THEN <<c>>
    ELSE IF c < 2048 THEN <<192 + (c \div 64), 128 + (c % 64)>>
    ELSE IF c < 65536
         THEN <<224 + (c \div 4096), 128 + ((c \div 64) % 64), 128 + (c % 64)>>
         ELSE <<240 + (c \div 262144), 128 + ((c \div 4096) % 64),
                128 + ((c \div 64) % 64), 128 + (c % 64)>>

\* char::len_utf8.
len_utf8(c) ==
    IF c < 128 THEN 1 ELSE IF c < 2048 THEN 2 ELSE IF c < 65536 THEN 3 ELSE 4

\* str::as_bytes: a str is stored as the UTF-8 bytes of its chars.
as_bytes(s) == Flatten([i \in DOMAIN s |-> encode_utf8(s[i])])

\* str::len: the length in bytes.
RECURSIVE str_len(_)
str_len(s) == IF s = <<>> THEN 0 ELSE len_utf8(Head(s)) + str_len(Tail(s))

\* char::to_uppercase on the characters the model uses: a..z map to A..Z,
\* U+00DF (sharp s) expands to "SS", U+00E9 maps to U+00C9, the rest is fixed.
to_uppercase(c) ==
    IF c >= 97 /\ c <= 122 THEN <<c - 32>>
    ELSE IF c = 223 THEN <<83, 83>>
    ELSE IF c = 233 THEN <<201>>
    ELSE <<c>>

(***************************************************************************)
(* Sinks.                                                                  *)
(***************************************************************************)
\* A call a sink receives.
Call(op, s, n) == [op |-> op, s |-> s, n |-> n]

Logged(w, call) == [w EXCEPT !.log = Append(@, call)]

\* let mut buf: &mut [u8] = &mut [0u8; n]: mem is the whole array, the slice
\* the sink still holds is mem[pos..].
SliceSink(n) ==
    [kind |-> "slice", mem |-> [i \in 1..n |-> 0], pos |-> 0, log |-> <<>>]

\* String::new(): mem is the contents, cap the capacity reserved so far.
StringSink == [kind |-> "String", mem |-> <<>>, cap |-> 0, log |-> <<>>]

\* Transformer::new(transformation, writer)
Transformer_new(transformation, w) ==
    [kind |-> "Transformer", transformation |-> transformation, writer |-> w,
     log |-> <<>>]

remaining(w) == Len(w.mem) - w.pos

\* Faulty variant of SliceWriteChar: an exact fit is refused.
SliceWriteCharStrict(w, val) ==
    LET buf == encode_utf8(val) IN
    IF Len(buf) < remaining(w)
    THEN [w |-> [w EXCEPT
                   !.mem = [i \in DOMAIN w.mem |->
                              IF i > w.pos /\ i <= w.pos + Len(buf)
                              THEN buf[i - w.pos] ELSE w.mem[i]],
                   !.pos = w.pos + Len(buf)],
          res |-> "Ok"]
    ELSE [w |-> w, res |-> "BufferOverflow"]

\* <&mut [u8] as Write>::write_char
SliceWriteChar(w, val) ==
    LET buf == encode_utf8(val) IN
    IF Len(buf) <= remaining(w)
    THEN [w |-> [w EXCEPT
                   !.mem = [i \in DOMAIN w.mem |->
                              IF i > w.pos /\ i <= w.pos + Len(buf)
                              THEN buf[i - w.pos] ELSE w.mem[i]],
                   !.pos = w.pos + Len(buf)],
          res |-> "Ok"]
    ELSE [w |-> w, res |-> "BufferOverflow"]

\* <String as Write>::write_char: self.push(val)
StringWriteChar(w, val) ==
    LET mem == w.mem \o encode_utf8(val) IN
    [w |-> [w EXCEPT !.mem = mem, !.cap = Max(w.cap, Len(mem))], res |-> "Ok"]

\* <String as Write>::write_str: self.push_str(val)
StringWriteStr(w, val) ==
    LET mem == w.mem \o as_bytes(val) IN
    [w |-> [w EXCEPT !.mem = mem, !.cap = Max(w.cap, Len(mem))], res |-> "Ok"]

\* <String as Write>::size_hint: self.reserve(bytes)
StringSizeHint(w, bytes) == [w EXCEPT !.cap = Max(w.cap, Len(w.mem) + bytes)]

(***************************************************************************)
(* Transformations.  "Upper" is the one of the crate's test; "Identity"    *)
(* writes c unchanged; "Twice" writes c two times and doubles the hint.    *)
(***************************************************************************)
Transforms == {"Upper", "Identity", "Twice"}

\* The chars transform_char writes for c, in order.
TransformChars(t, c) ==
    CASE t = "Upper" -> to_uppercase(c)
      [] t = "Identity" -> <<c>>
      [] t = "Twice" -> <<c, c>>

\* Transform::transform_size_hint
transform_size_hint(t, bytes) ==
    CASE t = "Upper" -> bytes
      [] t = "Identity" -> bytes
      [] t = "Twice" -> 2 * bytes

\* Transform::transform_char: for c in ... { writer.write_char(c)?; } Ok(())
transform_char(t, w, c) == write_each(w, TransformChars(t, c))

\* Faulty variant of transform_str: an error of transform_char ends the loop
\* but is not returned.
RECURSIVE transform_str_unchecked(_, _, _)
transform_str_unchecked(t, w, s) ==
    IF s = <<>> THEN [w |-> w, res |-> "Ok"]
    ELSE LET r == transform_char(t, w, Head(s)) IN
         IF r.res # "Ok" THEN [w |-> r.w, res |-> "Ok"]
         ELSE transform_str_unchecked(t, r.w, Tail(s))

\* Transform::transform_str (the default method)
RECURSIVE transform_str(_, _, _)
transform_str(t, w, s) ==
    IF s = <<>> THEN [w |-> w, res |-> "Ok"]
    ELSE LET r == transform_char(t, w, Head(s)) IN
         IF r.res # "Ok" THEN r ELSE transform_str(t, r.w, Tail(s))

\* Faulty variant of TransformerWriteChar: the char goes to the inner sink
\* as it is.
TransformerWriteCharRaw(w, c) ==
    LET r == write_char(w.writer, c) IN
    [w |-> [w EXCEPT !.writer = r.w], res |-> r.res]

\* <Transformer as Write>::write_char
TransformerWriteChar(w, c) ==
    LET r == transform_char(w.transformation, w.writer, c) IN
    [w |-> [w EXCEPT !.writer = r.w], res |-> r.res]

\* <Transformer as Write>::write_str
TransformerWriteStr(w, s) ==
    LET r == transform_str(w.transformation, w.writer, s) IN
    [w |-> [w EXCEPT !.writer = r.w], res |-> r.res]

\* <Transformer as Write>::size_hint
TransformerSizeHint(w, bytes) ==
    [w EXCEPT !.writer =
        sink_size_hint(w.writer, transform_size_hint(w.transformation, bytes))]

(***************************************************************************)
(* The Write trait: dispatch on the sink.                                  *)
(***************************************************************************)
\* Write::write_char
write_char(w0, val) ==
    LET w == Logged(w0, Call("write_char", <<val>>, 0)) IN
    CASE w.kind = "slice" -> SliceWriteChar(w, val)
      [] w.kind = "String" -> StringWriteChar(w, val)
      [] w.kind = "Transformer" -> TransformerWriteChar(w, val)

\* for c in val.chars() { self.write_char(c)?; } Ok(())
write_each(w, val) ==
    IF val = <<>> THEN [w |-> w, res |-> "Ok"]
    ELSE LET r == write_char(w, Head(val)) IN
         IF r.res # "Ok" THEN r ELSE write_each(r.w, Tail(val))

\* Faulty variant of DefaultWriteStr: a char that fails is skipped and the
\* error is returned at the end.
RECURSIVE DefaultWriteStrSkipping(_, _)
DefaultWriteStrSkipping(w, val) ==
    IF val = <<>> THEN [w |-> w, res |-> "Ok"]
    ELSE LET r == write_char(w, Head(val))
             rest == DefaultWriteStrSkipping(r.w, Tail(val)) IN
         IF r.res # "Ok" THEN [w |-> rest.w, res |-> r.res] ELSE rest

\* Write::write_str (the default method, which the byte slice keeps)
DefaultWriteStr(w, val) == write_each(w, val)

\* Write::write_str
write_str(w0, val) ==
    LET w == Logged(w0, Call("write_str", val, 0)) IN
    CASE w.kind = "slice" -> DefaultWriteStr(w, val)
      [] w.kind = "String" -> StringWriteStr(w, val)
      [] w.kind = "Transformer" -> TransformerWriteStr(w, val)

\* Write::size_hint
sink_size_hint(w0, bytes) ==
    LET w == Logged(w0, Call("size_hint", <<>>, bytes)) IN
    CASE w.kind = "slice" -> w
      [] w.kind = "String" -> StringSizeHint(w, bytes)
      [] w.kind = "Transformer" -> TransformerSizeHint(w, bytes)

\* Write::uses_size_hint
uses_size_hint(w) ==
    CASE w.kind = "slice" -> FALSE
      [] w.kind = "String" -> TRUE
      [] w.kind = "Transformer" -> uses_size_hint(w.writer)

\* The bytes the sink at the bottom holds.
Written(w) ==
    CASE w.kind = "slice" -> SubSeq(w.mem, 1, w.pos)
      [] w.kind = "String" -> w.mem
      [] w.kind = "Transformer" -> Written(w.writer)

\* The sink with the logs of a finished operation dropped.
ClearLog(w) ==
    IF w.kind = "Transformer"
    THEN [w EXCEPT !.log = <<>>, !.writer = ClearLog(w.writer)]
    ELSE [w EXCEPT !.log = <<>>]

(***************************************************************************)
(* Strategies and renderables.                                             *)
(***************************************************************************)
\* consts::DISPLAY, consts::DEBUG
DISPLAY == "Display"

DEBUG == "Debug"

\* "Tag" stands for a strategy a user of the crate defines.
Strategies == {DISPLAY, DEBUG, "Tag"}

\* &str and String values, chars, integers (ty names the type, bytes holds
\* the value's two's complement bytes, most significant first).
Str(s) == [k |-> "str", s |-> s]

StdString(s) == [k |-> "String", s |-> s]

Char(c) == [k |-> "char", c |-> c]

IntVal(ty, bytes) == [k |-> "int", ty |-> ty, bytes |-> bytes]

Empty == [k |-> "Empty"]

\* Chain::new(val0, val1)
Chain_new(val0, val1) == [k |-> "Chain", val0 |-> val0, val1 |-> val1]

\* Instantiated::new(value, strategy)
Instantiated_new(value, strategy) ==
    [k |-> "Instantiated", value |-> value, strategy |-> strategy]

\* Transformed::new(value, transformation)
Transformed_new(value, transformation) ==
    [k |-> "Transformed", value |-> value, transformation |-> transformation]

\* A type of a user of the crate that implements Fmt<S> for each strategy S
\* with a different text: s itself for Display, "s" in double quotes for
\* Debug, <s> for Tag.
Label(s) == [k |-> "Label", s |-> s]

LabelText(s, strategy) ==
    CASE strategy = DISPLAY -> s
      [] strategy = DEBUG -> <<34>> \o s \o <<34>>
      [] strategy = "Tag" -> <<60>> \o s \o <<62>>

(***************************************************************************)
(* Integers: impls! in int_impls.rs.                                       *)
(***************************************************************************)
IntTypes == {"i8", "i16", "i32", "i64", "u8", "u16", "u32", "u64"}

Signed(ty) == ty \in {"i8", "i16", "i32", "i64"}

\* size_of::<$ix>()
IntBytes(ty) ==
    CASE ty \in {"i8", "u8"} -> 1
      [] ty \in {"i16", "u16"} -> 2
      [] ty \in {"i32", "u32"} -> 4
      [] ty \in {"i64", "u64"} -> 8

\* The $N of impls! { (i8, 4), (i16, 6), ... }
IntN(ty) ==
    CASE ty = "i8" -> 4
      [] ty = "i16" -> 6
      [] ty = "i32" -> 11
      [] ty = "i64" -> 20
      [] ty = "u8" -> 3
      [] ty = "u16" -> 5
      [] ty = "u32" -> 10
      [] ty = "u64" -> 20

\* One step of the division of a many-byte number by ten, most significant
\* byte first: the quotient's bytes and the remainder.
RECURSIVE DivTen(_, _, _)
DivTen(bytes, q, r) ==
    IF bytes = <<>> THEN [q |-> q, r |-> r]
    ELSE LET cur == r * 256 + Head(bytes) IN
         DivTen(Tail(bytes), Append(q, cur \div 10), cur % 10)

\* The decimal digits (ASCII) of an unsigned many-byte number.
RECURSIVE Digits(_)
Digits(bytes) ==
    LET d == DivTen(bytes, <<>>, 0) IN
    IF \A i \in DOMAIN d.q : d.q[i] = 0
    THEN <<48 + d.r>>
    ELSE Append(Digits(d.q), 48 + d.r)

\* The two's complement of a many-byte number: its magnitude when negative.
RECURSIVE Negate(_, _)
Negate(bytes, carry) ==
    IF bytes = <<>> THEN <<>>
    ELSE LET n == Len(bytes)
             cur == (255 - bytes[n]) + carry IN
         Append(Negate(SubSeq(bytes, 1, n - 1), cur \div 256), cur % 256)

\* NumToA::numtoa(self, 10, &mut buffer) of the numtoa crate: the decimal
\* text goes to the end of the buffer, the index where it starts is returned.
numtoa(ty, bytes, buffer) ==
    LET neg == Signed(ty) /\ bytes[1] >= 128
        text == IF neg THEN <<45>> \o Digits(Negate(bytes, 1)) ELSE Digits(bytes)
        start == Len(buffer) - Len(text) IN
    [buffer |-> [i \in DOMAIN buffer |->
                   IF i > start THEN text[i - start] ELSE buffer[i]],
     start |-> start]

\* str::from_utf8_unchecked on the bytes numtoa wrote, which are ASCII.
from_utf8_unchecked(bytes) == [i \in DOMAIN bytes |-> CASE bytes[i] < 128 -> bytes[i]]

\* <$ix as Fmt<Display>>::fmt; uninit is what the uninitialized buffer holds.
IntFmt(v, w, uninit) ==
    LET buffer == [i \in 1..(IntN(v.ty) + 1) |-> uninit]
        r == numtoa(v.ty, v.bytes, buffer)
        start == r.start
        len == Len(r.buffer) - start
        s == SubSeq(r.buffer, start + 1, start + len) IN
    write_str(w, from_utf8_unchecked(s))

\* Faulty variant of IntSizeHint: the size of the buffer, not $N.
IntSizeHintBuffer(v) == IntN(v.ty) + 1

\* <$ix as Fmt<Display>>::size_hint
IntSizeHint(v) == IntN(v.ty)

(***************************************************************************)
(* The Fmt trait.                                                          *)
(***************************************************************************)
\* <str as Fmt<Display>>::fmt
StrFmt(v, w) == write_str(w, v.s)

\* <String as Fmt>::fmt: (**self).fmt(writer, strategy)
StdStringFmt(v, w) == StrFmt(Str(v.s), w)

\* <String as Fmt>::size_hint: self.len()
StdStringSizeHint(v) == Len(as_bytes(v.s))

\* Faulty variant of StrSizeHint: the chars are counted, not the bytes.
StrSizeHintChars(v) == Len(v.s)

\* <str as Fmt<Display>>::size_hint
StrSizeHint(v) == str_len(v.s)

\* <char as Fmt<Display>>::fmt
CharFmt(v, w) == write_char(w, v.c)

\* <char as Fmt<Display>>::size_hint
CharSizeHint(v) == len_utf8(v.c)

\* Faulty variant of EmptyFmt: a space is written.
EmptyFmtSpace(v, w) == write_char(w, 32)

\* <Empty as Fmt<S>>::fmt
EmptyFmt(v, w) == [w |-> w, res |-> "Ok"]

\* <Empty as Fmt<S>>::size_hint
EmptySizeHint(v) == 0

\* Faulty variant of ChainFmt: val1 is rendered before val0.
ChainFmtSwapped(v, w, strategy, uninit) ==
    LET r == fmt(v.val1, w, strategy, uninit) IN
    IF r.res # "Ok" THEN r ELSE fmt(v.val0, r.w, strategy, uninit)

\* Faulty variant of ChainFmt: val1 is rendered although val0 failed.
ChainFmtNoAbort(v, w, strategy, uninit) ==
    LET r == fmt(v.val0, w, strategy, uninit)
        r1 == fmt(v.val1, r.w, strategy, uninit) IN
    IF r.res # "Ok" THEN [w |-> r1.w, res |-> r.res] ELSE r1

\* <Chain as Fmt<S>>::fmt
ChainFmt(v, w, strategy, uninit) ==
    LET r == fmt(v.val0, w, strategy, uninit) IN
    IF r.res # "Ok" THEN r ELSE fmt(v.val1, r.w, strategy, uninit)

\* <Chain as Fmt<S>>::size_hint
ChainSizeHint(v, strategy) ==
    size_hint(v.val0, strategy) + size_hint(v.val1, strategy)

\* Faulty variant of InstantiatedFmt: the strategy of the call is used, not
\* the bound one.
InstantiatedFmtOuter(v, w, strategy, uninit) == fmt(v.value, w, strategy, uninit)

\* <Instantiated as Fmt>::fmt
InstantiatedFmt(v, w, strategy, uninit) == fmt(v.value, w, v.strategy, uninit)

\* <Instantiated as Fmt>::size_hint
InstantiatedSizeHint(v, strategy) == size_hint(v.value, v.strategy)

\* Faulty variant of TransformedFmt: the Transformer stays around the sink
\* after the call.
TransformedFmtLeaky(v, w, strategy, uninit) ==
    LET writer0 == Transformer_new(v.transformation, w)
        r == fmt(v.value, writer0, strategy, uninit) IN
    [w |-> r.w, res |-> r.res]

\* <Transformed as Fmt<S>>::fmt: the Transformer lives for this call only
TransformedFmt(v, w, strategy, uninit) ==
    LET writer0 == Transformer_new(v.transformation, w)
        r == fmt(v.value, writer0, strategy, uninit) IN
    [w |-> r.w.writer, res |-> r.res]

\* <Transformed as Fmt<S>>::size_hint
TransformedSizeHint(v, strategy) ==
    transform_size_hint(v.transformation, size_hint(v.value, strategy))

\* An implementation of Fmt<S> outside the crate.
LabelFmt(v, w, strategy) == write_str(w, LabelText(v.s, strategy))

LabelSizeHint(v, strategy) == str_len(LabelText(v.s, strategy))

\* Fmt::fmt
fmt(v, w, strategy, uninit) ==
    CASE v.k = "str" /\ strategy = DISPLAY -> StrFmt(v, w)
      [] v.k = "String" /\ strategy = DISPLAY -> StdStringFmt(v, w)
      [] v.k = "char" /\ strategy = DISPLAY -> CharFmt(v, w)
      [] v.k = "int" /\ strategy = DISPLAY -> IntFmt(v, w, uninit)
      [] v.k = "Empty" -> EmptyFmt(v, w)
      [] v.k = "Chain" -> ChainFmt(v, w, strategy, uninit)
      [] v.k = "Instantiated" /\ strategy = DISPLAY ->
            InstantiatedFmt(v, w, strategy, uninit)
      [] v.k = "Transformed" -> TransformedFmt(v, w, strategy, uninit)
      [] v.k = "Label" -> LabelFmt(v, w, strategy)

\* Fmt::size_hint
size_hint(v, strategy) ==
    CASE v.k = "str" /\ strategy = DISPLAY -> StrSizeHint(v)
      [] v.k = "String" /\ strategy = DISPLAY -> StdStringSizeHint(v)
      [] v.k = "char" /\ strategy = DISPLAY -> CharSizeHint(v)
      [] v.k = "int" /\ strategy = DISPLAY -> IntSizeHint(v)
      [] v.k = "Empty" -> EmptySizeHint(v)
      [] v.k = "Chain" -> ChainSizeHint(v, strategy)
      [] v.k = "Instantiated" /\ strategy = DISPLAY ->
            InstantiatedSizeHint(v, strategy)
      [] v.k = "Transformed" -> TransformedSizeHint(v, strategy)
      [] v.k = "Label" -> LabelSizeHint(v, strategy)

(***************************************************************************)
(* The macros.                                                             *)
(***************************************************************************)
\* fast_fmt_instantiate!: rule is "expr" for ($arg:expr), "=>?" for
\* ($arg:expr=>?), "=>{}" for ($arg:expr=>{$strategy:expr}).
fast_fmt_instantiate(arg, rule, strategy) ==
    CASE rule = "expr" -> Instantiated_new(arg, DISPLAY)
      [] rule = "=>?" -> Instantiated_new(arg, DEBUG)
      [] rule = "=>{}" -> Instantiated_new(arg, strategy)

\* let chain = Empty; $( let chain = chain.chain(fast_fmt_instantiate!($args)); )*
\* fwrite! takes each argument as an expr, so the first rule applies to it.
RECURSIVE FwriteChain(_, _)
FwriteChain(chain, args) ==
    IF args = <<>> THEN chain
    ELSE FwriteChain(
            Chain_new(chain, fast_fmt_instantiate(Head(args), "expr", DISPLAY)),
            Tail(args))

\* Faulty variant of fwrite: the hint is sent whether the sink uses it or not.
fwriteAlwaysHints(w, args, uninit) ==
    LET chain == FwriteChain(Empty, args) IN
    fmt(chain, sink_size_hint(w, size_hint(chain, DISPLAY)), DISPLAY, uninit)

\* fwrite!($writer, $($args),*)
fwrite(w, args, uninit) ==
    LET chain == FwriteChain(Empty, args)
        w1 == IF uses_size_hint(w)
              THEN sink_size_hint(w, size_hint(chain, DISPLAY))
              ELSE w IN
    fmt(chain, w1, DISPLAY, uninit)

(***************************************************************************)
(* The inputs the operations draw from.                                    *)
(***************************************************************************)
\* "a", sharp s (2 bytes), the euro sign (3 bytes), an emoji (4 bytes)
Chars == {97, 223, 8364, 128512}

Hello == <<72, 101, 108, 108, 111>>

World == <<32, 119, 111, 114, 108, 100, 33>>

\* const TEST_STR: &str = "Hello world1"
TEST_STR == <<72, 101, 108, 108, 111, 32, 119, 111, 114, 108, 100, 49>>

Strs == {<<>>, <<97>>, <<223, 97>>, <<97, 8364>>, <<97, 8364, 97>>, Hello, World}

Hints == {0, 7}

\* The bytes an uninitialized buffer may hold.
Uninit == {0, 255}

\* Values of an integer type: 0, all bits set (-1 or the maximum), the top
\* bit alone (the minimum of a signed type).
IntValues(ty) ==
    LET n == IntBytes(ty)
        zero == [i \in 1..n |-> 0] IN
    {zero, [i \in 1..n |-> 255], [zero EXCEPT ![1] = 128]}

Ints == UNION {{IntVal(ty, b) : b \in IntValues(ty)} : ty \in IntTypes}

\* An integer chained to Empty, on either side.
IntChains ==
    UNION {{Chain_new(Empty, v), Chain_new(v, Empty)} :
            v \in {IntVal("i8", <<128>>), IntVal("u16", <<255, 255>>)}}

Leaves ==
    {Str(s) : s \in Strs \cup {TEST_STR}} \cup {Char(c) : c \in Chars}
    \cup {StdString(<<223, 97>>), Empty, Label(<<97>>), Label(<<223>>)}

Parts == {Str(<<97>>), Str(<<223, 97>>), Char(8364), Empty}

Chains ==
    {Chain_new(a, b) : a \in Parts, b \in Parts}
    \cup {Chain_new(Chain_new(Str(<<97>>), Char(223)), Str(<<97>>)),
          Chain_new(Str(<<97, 8364>>), Str(<<97>>)),
          Chain_new(Str(Hello), Str(World)),
          Chain_new(Label(<<97>>), Label(<<223>>))}
    \cup UNION {{Chain_new(Empty, x), Chain_new(x, Empty)} :
                  x \in {Chain_new(Str(<<97>>), Char(223)),
                         Transformed_new(Str(<<97>>), "Twice")}}

Instantiateds ==
    {fast_fmt_instantiate(x, "expr", DISPLAY) : x \in {Str(<<223, 97>>), Label(<<97>>)}}
    \cup {fast_fmt_instantiate(x, "=>?", DISPLAY) :
            x \in {Label(<<97>>), Chain_new(Label(<<97>>), Label(<<223>>))}}
    \cup {fast_fmt_instantiate(x, "=>{}", "Tag") :
            x \in {Label(<<97>>), Transformed_new(Label(<<97>>), "Upper")}}
    \cup {Instantiated_new(Str(TEST_STR), DISPLAY),
          Chain_new(Instantiated_new(Str(TEST_STR), DISPLAY), Str(TEST_STR)),
          Chain_new(Instantiated_new(Label(<<97>>), DEBUG), Str(<<97>>)),
          Instantiated_new(Instantiated_new(Label(<<97>>), DEBUG), DISPLAY)}

Transformeds ==
    {Transformed_new(x, t) :
        x \in Parts \cup {Chain_new(Str(<<97>>), Char(223))}, t \in Transforms}
    \cup {Transformed_new(Transformed_new(Str(<<97>>), "Upper"), "Twice"),
          Chain_new(Str(Hello), Transformed_new(Str(World), "Upper")),
          Chain_new(Transformed_new(Str(<<97>>), "Upper"), Str(<<97>>)),
          Chain_new(Str(<<97>>), Transformed_new(Str(<<223>>), "Identity")),
          Chain_new(Chain_new(Str(<<97>>), Transformed_new(Char(223), "Upper")),
                    Str(<<97>>))}

\* What a value is rendered under: every value under Display, and under
\* the other strategies the values whose types implement Fmt for them.
Renderings ==
    {<<v, DISPLAY>> : v \in Leaves \cup Chains \cup Instantiateds \cup Transformeds}
    \cup {<<v, s>> :
            v \in {Label(<<97>>), Chain_new(Empty, Label(<<97>>)),
                   Transformed_new(Label(<<97>>), "Identity")},
            s \in {DEBUG, "Tag"}}

\* The argument lists of fwrite!.
Args ==
    {Str(<<97>>), Char(223), Label(<<97>>),
     fast_fmt_instantiate(Label(<<97>>), "=>?", DISPLAY)}

ArgLists ==
    {<<>>} \cup {<<a>> : a \in Args} \cup {<<a, b>> : a \in Args, b \in Args}
    \cup {<<Str(Hello), Transformed_new(Str(World), "Upper")>>,
          <<Str(TEST_STR), Str(TEST_STR)>>,
          <<IntVal("u8", <<255>>), Transformed_new(Str(<<97>>), "Twice")>>,
          <<Str(<<97>>), fast_fmt_instantiate(Label(<<97>>), "=>{}", "Tag"), Char(8364)>>}

\* The sinks a run starts from: byte slices of every capacity up to MaxCap,
\* a String, Transformers around them, and an uppercase Transformer around
\* a slice that holds "Hello world!" exactly.
Sinks ==
    {SliceSink(n) : n \in 0..MaxCap} \cup {StringSink}
    \cup {Transformer_new(t, SliceSink(MaxCap)) : t \in Transforms}
    \cup {SliceSink(Len(Hello) + Len(World)),
          Transformer_new("Upper", SliceSink(Len(Hello) + Len(World))),
          Transformer_new("Twice", StringSink),
          Transformer_new("Upper", Transformer_new("Twice", SliceSink(MaxCap)))}

(***************************************************************************)
(* The state machine: a sink and the operations performed on it.  last     *)
(* records the latest operation: its name, the sink before it, its         *)
(* arguments (s: the char or str written, n: the hint, v: the values       *)
(* rendered, strategy) and its result.                                     *)
(***************************************************************************)
Op(op, before, r, s, n, v, strategy) ==
    [op |-> op, before |-> before, res |-> r.res, s |-> s, n |-> n, v |-> v,
     strategy |-> strategy]

Init ==
    /\ writer \in Sinks
    /\ last = Op("new", writer, [res |-> "Ok"], <<>>, 0, <<>>, DISPLAY)
    /\ nops = 0

\* A run: up to MaxOps direct calls on the sink (none on a String that
\* holds more than MaxFill bytes), then one rendering, after which the sink
\* is dropped.
Rendered == last.op \in {"fmt", "fwrite"}

MayWrite ==
    /\ ~Rendered
    /\ nops < MaxOps
    /\ uses_size_hint(writer) => Len(Written(writer)) <= MaxFill

MayRender ==
    /\ ~Rendered
    /\ uses_size_hint(writer) => Len(Written(writer)) <= MaxFill

\* writer.write_char(c)
WriteChar ==
    \E c \in Chars :
        LET before == ClearLog(writer)
            r == write_char(before, c) IN
        /\ MayWrite
        /\ writer' = r.w
        /\ last' = Op("write_char", before, r, <<c>>, 0, <<>>, DISPLAY)
        /\ nops' = nops + 1

\* writer.write_str(s)
WriteStr ==
    \E s \in Strs :
        LET before == ClearLog(writer)
            r == write_str(before, s) IN
        /\ MayWrite
        /\ writer' = r.w
        /\ last' = Op("write_str", before, r, s, 0, <<>>, DISPLAY)
        /\ nops' = nops + 1

\* writer.size_hint(bytes)
SizeHint ==
    \E bytes \in Hints :
        LET before == ClearLog(writer) IN
        /\ MayWrite
        /\ writer' = sink_size_hint(before, bytes)
        /\ last' = Op("size_hint", before, [res |-> "Ok"], <<>>, bytes, <<>>, DISPLAY)
        /\ nops' = nops + 1

\* value.fmt(&mut writer, &strategy), no integer in value (no buffer is
\* used)
Fmt ==
    \E x \in Renderings :
        LET before == ClearLog(writer)
            r == fmt(x[1], before, x[2], 0) IN
        /\ MayRender
        /\ writer' = r.w
        /\ last' = Op("fmt", before, r, <<>>, 0, <<x[1]>>, x[2])
        /\ UNCHANGED nops

\* integer.fmt(&mut writer, &DISPLAY)
FmtInt ==
    \E v \in Ints \cup IntChains, uninit \in Uninit :
        LET before == ClearLog(writer)
            r == fmt(v, before, DISPLAY, uninit) IN
        /\ MayRender
        /\ writer' = r.w
        /\ last' = Op("fmt", before, r, <<>>, 0, <<v>>, DISPLAY)
        /\ UNCHANGED nops

\* fwrite!(&mut writer, args...)
Fwrite ==
    \E args \in ArgLists, uninit \in Uninit :
        LET before == ClearLog(writer)
            r == fwrite(before, args, uninit) IN
        /\ MayRender
        /\ writer' = r.w
        /\ last' = Op("fwrite", before, r, <<>>, 0, args, DISPLAY)
        /\ UNCHANGED nops

Next == WriteChar \/ WriteStr \/ SizeHint \/ Fmt \/ FmtInt \/ Fwrite

Spec == Init /\ [][Next]_vars

(***************************************************************************)
(* What the properties below observe.                                      *)
(***************************************************************************)
IsPrefix(a, b) == Len(a) <= Len(b) /\ SubSeq(b, 1, Len(a)) = a

\* The sink at the bottom of a stack of Transformers.
RECURSIVE Base(_)
Base(w) == IF w.kind = "Transformer" THEN Base(w.writer) ELSE w

\* The same stack of Transformers around an empty String.
RECURSIVE Unbounded(_)
Unbounded(w) ==
    IF w.kind = "Transformer"
    THEN Transformer_new(w.transformation, Unbounded(w.writer))
    ELSE StringSink

\* The bytes v, rendered alone under strategy, sends through the
\* Transformers of w into a sink that never overflows.
Output(v, strategy, w) == Written(fmt(v, Unbounded(w), strategy, 0).w)

\* The bytes the latest operation added, and that it kept the bytes before.
Appended ==
    SubSeq(Written(writer), Len(Written(last.before)) + 1, Len(Written(writer)))

KeptBefore == IsPrefix(Written(last.before), Written(writer))

\* The chars of the write_char calls in a log, in order.
RECURSIVE CharsOf(_)
CharsOf(log) ==
    IF log = <<>> THEN <<>>
    ELSE (IF Head(log).op = "write_char" THEN Head(log).s ELSE <<>>)
         \o CharsOf(Tail(log))

(***************************************************************************)
(* C1: a Chain's size hint is the sum of the size hints of its two         *)
(* values, and rendering it writes what val0 renders alone followed by     *)
(* what val1 renders alone: all of it when the render succeeds, a prefix   *)
(* of it when the sink overflows, and after the bytes the sink held.       *)
(***************************************************************************)
C1_ChainConcatenates ==
    (last.op = "fmt" /\ last.v[1].k = "Chain") =>
        LET c == last.v[1]
            s == last.strategy
            both == Output(c.val0, s, last.before) \o Output(c.val1, s, last.before) IN
        /\ size_hint(c, s) = size_hint(c.val0, s) + size_hint(c.val1, s)
        /\ KeptBefore
        /\ IsPrefix(Appended, both)
        /\ last.res = "Ok" => Appended = both
        /\ uses_size_hint(last.before) => last.res = "Ok"

\* A chain of two values with different, non-empty outputs has been
\* rendered with success into a sink that held bytes already.
C1_Witness ==
    /\ last.op = "fmt" /\ last.v[1].k = "Chain" /\ last.res = "Ok"
    /\ Written(last.before) # <<>>
    /\ LET c == last.v[1]
           a == Output(c.val0, last.strategy, last.before)
           b == Output(c.val1, last.strategy, last.before) IN
       a # <<>> /\ b # <<>> /\ a \o b # b \o a

(***************************************************************************)
(* C2: when val0 of a Chain fails, the Chain returns val0's error, the     *)
(* sink is left exactly as val0 alone leaves it (what val0 wrote stays,    *)
(* val1 writes nothing), and the last call the bottom sink received is     *)
(* the char that did not fit.                                              *)
(***************************************************************************)
C2_ChainAbortsOnFirstError ==
    (last.op = "fmt" /\ last.v[1].k = "Chain") =>
        LET c == last.v[1]
            r0 == fmt(c.val0, last.before, last.strategy, 0)
            b == Base(writer) IN
        r0.res # "Ok" =>
            /\ last.res = r0.res
            /\ writer = r0.w
            /\ KeptBefore
            /\ IsPrefix(Appended, Output(c.val0, last.strategy, last.before))
            /\ b.log # <<>>
            /\ b.log[Len(b.log)].op = "write_char"
            /\ len_utf8(b.log[Len(b.log)].s[1]) > remaining(b)

\* val0 wrote a char and then failed, and val1's first char would have fit.
C2_Witness ==
    /\ last.op = "fmt" /\ last.v[1].k = "Chain"
    /\ last.res = "BufferOverflow" /\ Appended # <<>>
    /\ writer.kind = "slice"
    /\ LET c == last.v[1] IN
       /\ fmt(c.val0, last.before, last.strategy, 0).res = "BufferOverflow"
       /\ fmt(c.val1, writer, last.strategy, 0).res = "Ok"
       /\ Output(c.val1, last.strategy, writer) # <<>>

(***************************************************************************)
(* C3: write_char on a byte slice succeeds exactly when the char's UTF-8   *)
(* length is at most the remaining capacity; a success appends the char's  *)
(* UTF-8 bytes and takes their number from the remaining capacity; a       *)
(* failure is BufferOverflow and changes neither the bytes nor the         *)
(* remaining capacity.                                                     *)
(***************************************************************************)
C3_SliceWriteChar ==
    (last.op = "write_char" /\ last.before.kind = "slice") =>
        LET c == last.s[1]
            n == len_utf8(c)
            b == last.before IN
        /\ (last.res = "Ok") <=> (n <= remaining(b))
        /\ last.res = "Ok" =>
              /\ Written(writer) = Written(b) \o encode_utf8(c)
              /\ remaining(writer) = remaining(b) - n
              /\ Len(writer.mem) = Len(b.mem)
              /\ \A i \in (writer.pos + 1)..Len(b.mem) : writer.mem[i] = b.mem[i]
        /\ last.res # "Ok" =>
              /\ last.res = "BufferOverflow"
              /\ writer.mem = b.mem
              /\ writer.pos = b.pos

\* A char of several bytes has been written into the space that an earlier
\* write left, and fills it exactly.
C3_Witness ==
    /\ last.op = "write_char" /\ last.before.kind = "slice"
    /\ last.res = "Ok"
    /\ last.before.pos > 0
    /\ len_utf8(last.s[1]) > 1
    /\ remaining(last.before) = len_utf8(last.s[1])

(***************************************************************************)
(* C4: write_str on a byte slice of a str longer (in UTF-8 bytes) than     *)
(* the remaining capacity fails with BufferOverflow, and the slice holds   *)
(* exactly the leading chars that fit before the first one that does not; *)
(* nothing is written from that char on.                                   *)
(***************************************************************************)
\* The number of leading chars of s that fit into rem bytes.
Fitting(s, rem) ==
    CHOOSE k \in 0..Len(s) :
        /\ str_len(SubSeq(s, 1, k)) <= rem
        /\ k < Len(s) => str_len(SubSeq(s, 1, k + 1)) > rem

C4_WriteStrOverflow ==
    (/\ last.op = "write_str"
     /\ last.before.kind = "slice"
     /\ str_len(last.s) > remaining(last.before)) =>
        LET b == last.before
            k == Fitting(last.s, remaining(b)) IN
        /\ last.res = "BufferOverflow"
        /\ Written(writer) = Written(b) \o as_bytes(SubSeq(last.s, 1, k))
        /\ Len(writer.mem) = Len(b.mem)
        /\ \A i \in (writer.pos + 1)..Len(b.mem) : writer.mem[i] = b.mem[i]

\* A str overflowed a slice that held bytes already: its first char was
\* written, a later one failed, and the char after the failing one would
\* have fit.
C4_Witness ==
    /\ last.op = "write_str" /\ last.before.kind = "slice"
    /\ last.res = "BufferOverflow"
    /\ last.before.pos > 0
    /\ LET k == Fitting(last.s, remaining(last.before)) IN
       /\ k >= 1
       /\ k + 2 <= Len(last.s)
       /\ len_utf8(last.s[k + 2]) <= remaining(writer)

(***************************************************************************)
(* C5: in one fwrite!, a sink that uses size hints receives exactly one    *)
(* size_hint call, before every write, with the sum of the arguments'      *)
(* size hints; a sink that does not use them receives none; and the        *)
(* arguments are rendered once each, in order.                             *)
(***************************************************************************)
RECURSIVE SumOfHints(_)
SumOfHints(args) ==
    IF args = <<>> THEN 0
    ELSE size_hint(Head(args), DISPLAY) + SumOfHints(Tail(args))

RECURSIVE OutputOfAll(_, _)
OutputOfAll(args, w) ==
    IF args = <<>> THEN <<>>
    ELSE Output(Head(args), DISPLAY, w) \o OutputOfAll(Tail(args), w)

C5_FwriteHintsOnce ==
    (last.op = "fwrite") =>
        LET log == writer.log
            hints == {i \in DOMAIN log : log[i].op = "size_hint"}
            all == OutputOfAll(last.v, last.before) IN
        /\ IF uses_size_hint(last.before)
           THEN hints = {1} /\ log[1].n = SumOfHints(last.v)
           ELSE hints = {}
        /\ KeptBefore
        /\ IsPrefix(Appended, all)
        /\ last.res = "Ok" => Appended = all

\* fwrite! of two arguments or more into a sink that uses size hints and
\* held bytes already: the hint, then the writes.
C5_Witness ==
    /\ last.op = "fwrite" /\ uses_size_hint(last.before)
    /\ Written(last.before) # <<>>
    /\ Len(last.v) >= 2
    /\ SumOfHints(last.v) > 0
    /\ Len(writer.log) >= 3
    /\ writer.log[1].op = "size_hint"
    /\ Appended # <<>>

(***************************************************************************)
(* C6: an Instantiated rendered under Display writes what its value        *)
(* renders under the bound strategy, and has the value's size hint under   *)
(* the bound strategy; fwrite! writes, in the order of its arguments, what *)
(* each renders under its own bound strategy (Display when the argument    *)
(* binds none).                                                            *)
(***************************************************************************)
\* What an argument of fwrite! renders under the strategy bound to it.
OutputBound(x, w) ==
    IF x.k = "Instantiated"
    THEN Output(x.value, x.strategy, w)
    ELSE Output(x, DISPLAY, w)

RECURSIVE OutputOfAllBound(_, _)
OutputOfAllBound(args, w) ==
    IF args = <<>> THEN <<>>
    ELSE OutputBound(Head(args), w) \o OutputOfAllBound(Tail(args), w)

DecimalWidth(ty) ==
    CASE ty = "i8" -> 4 [] ty = "i16" -> 6 [] ty = "i32" -> 11 [] ty = "i64" -> 20
      [] ty = "u8" -> 3 [] ty = "u16" -> 5 [] ty = "u32" -> 10 [] ty = "u64" -> 20

Longest(v) ==
    IF Signed(v.ty)
    THEN v.bytes = [i \in 1..IntBytes(v.ty) |-> IF i = 1 THEN 128 ELSE 0]
    ELSE v.bytes = [i \in 1..IntBytes(v.ty) |-> 255]

\* "-2147483648"
MinI32Text == <<45, 50, 49, 52, 55, 52, 56, 51, 54, 52, 56>>

C7_IntegerWidth ==
    (last.op = "fmt" /\ last.v[1].k = "int") =>
        LET v == last.v[1] IN
        /\ size_hint(v, DISPLAY) = DecimalWidth(v.ty)
        /\ last.before.kind = "String" =>
              /\ last.res = "Ok"
              /\ KeptBefore
              /\ Len(Appended) <= DecimalWidth(v.ty)
              /\ Longest(v) => Len(Appended) = DecimalWidth(v.ty)
              /\ (v.ty = "i32" /\ Longest(v)) => Appended = MinI32Text

\* i32's minimum has been rendered into a String.
C7_Witness ==
    /\ last.op = "fmt" /\ last.v[1].k = "int"
    /\ last.before.kind = "String" /\ last.res = "Ok"
    /\ last.v[1] = IntVal("i32", <<128, 0, 0, 0>>)
    /\ Appended = MinI32Text

(***************************************************************************)
(* C8 as stated: for text, chars and integers the size hint is exactly the *)
(* number of bytes rendering writes into an unbounded sink.                *)
(***************************************************************************)
Primitive(v) == v.k \in {"str", "String", "char", "int"}

C8_PrimitiveHintExact ==
    (/\ last.op = "fmt" /\ last.strategy = DISPLAY
     /\ Primitive(last.v[1]) /\ last.before.kind = "String") =>
        size_hint(last.v[1], DISPLAY) = Len(Appended)

(***************************************************************************)
(* C8 as amended: for text and chars the size hint is exactly the number   *)
(* of bytes rendering writes into an unbounded sink; for an integer it is  *)
(* an upper bound of that number.                                          *)
(***************************************************************************)
C8_TextHintExactIntegerHintBounds ==
    (/\ last.op = "fmt" /\ last.strategy = DISPLAY
     /\ Primitive(last.v[1]) /\ last.before.kind = "String") =>
        LET v == last.v[1] IN
        /\ last.res = "Ok"
        /\ v.k # "int" => size_hint(v, DISPLAY) = Len(Appended)
        /\ v.k = "int" => size_hint(v, DISPLAY) >= Len(Appended)

\* A str with a char of several bytes has been rendered into a String.
C8_Witness ==
    /\ last.op = "fmt" /\ last.v[1].k = "str"
    /\ last.before.kind = "String" /\ last.res = "Ok"
    /\ Len(last.v[1].s) >= 2
    /\ Len(Appended) > Len(last.v[1].s)

(***************************************************************************)
(* C9: a value Transformed by the identity transformation leaves the sink  *)
(* as the value alone leaves it, returns what the value alone returns, and *)
(* has the value's size hint.                                              *)
(***************************************************************************)
C9_IdentityTransformed ==
    (/\ last.op = "fmt" /\ last.v[1].k = "Transformed"
     /\ last.v[1].transformation = "Identity") =>
        LET x == last.v[1]
            r == fmt(x.value, last.before, last.strategy, 0) IN
        /\ Written(writer) = Written(r.w)
        /\ ClearLog(writer) = ClearLog(r.w)
        /\ last.res = r.res
        /\ size_hint(x, last.strategy) = size_hint(x.value, last.strategy)

\* The identity transformation around a value that overflowed a slice
\* after writing part of its output.
C9_Witness ==
    /\ last.op = "fmt" /\ last.v[1].k = "Transformed"
    /\ last.v[1].transformation = "Identity"
    /\ last.res = "BufferOverflow"
    /\ Appended # <<>>

(***************************************************************************)
(* C10: a call on a Transformer reaches the inner sink as write_char calls *)
(* of the transformed chars, in order, and nothing else: the inner sink is *)
(* left as by writing the transformed chars into it one by one, and its    *)
(* result is the Transformer's; size_hint(bytes) reaches it as one         *)
(* size_hint(transform_size_hint(bytes)); uses_size_hint is the inner      *)
(* sink's.  "Hello" then " world!" through an uppercase Transformer into a *)
(* slice of 12 bytes succeeds and gives "HELLO WORLD!".                    *)
(***************************************************************************)
\* What transformation t makes of the chars of s.
TransformedChars(t, s) == Flatten([i \in DOMAIN s |-> TransformChars(t, s[i])])

\* "HELLO WORLD!"
HELLO_WORLD == <<72, 69, 76, 76, 79, 32, 87, 79, 82, 76, 68, 33>>

UpperOverTwelve == Transformer_new("Upper", SliceSink(Len(HELLO_WORLD)))

C10_TransformerRoutesEverything ==
    /\ writer.kind = "Transformer" =>
          uses_size_hint(writer) = uses_size_hint(writer.writer)
    /\ (last.before.kind = "Transformer" /\ last.op \in {"write_char", "write_str"}) =>
          LET t == last.before.transformation
              chars == TransformedChars(t, last.s)
              direct == write_each(last.before.writer, chars) IN
          /\ writer.writer = direct.w
          /\ last.res = direct.res
          /\ \A i \in DOMAIN writer.writer.log : writer.writer.log[i].op = "write_char"
          /\ IsPrefix(CharsOf(writer.writer.log), chars)
          /\ last.res = "Ok" => CharsOf(writer.writer.log) = chars
          /\ writer.transformation = t
    /\ (last.before.kind = "Transformer" /\ last.op = "size_hint") =>
          LET t == last.before.transformation IN
          /\ writer.writer.log = <<Call("size_hint", <<>>, transform_size_hint(t, last.n))>>
          /\ Written(writer) = Written(last.before)
    /\ (last.op = "write_str" /\ last.s = Hello /\ last.before = UpperOverTwelve) =>
          last.res = "Ok" /\ Written(writer) = SubSeq(HELLO_WORLD, 1, Len(Hello))
    /\ (/\ last.op = "write_str" /\ last.s = World
        /\ last.before.kind = "Transformer" /\ last.before.transformation = "Upper"
        /\ last.before.writer.kind = "slice"
        /\ Len(last.before.writer.mem) = Len(HELLO_WORLD)
        /\ Written(last.before) = SubSeq(HELLO_WORLD, 1, Len(Hello))) =>
          last.res = "Ok" /\ Written(writer) = HELLO_WORLD

\* " world!" has been written after "Hello" through the uppercase
\* Transformer into the slice of 12 bytes.
C10_Witness ==
    /\ last.op = "write_str" /\ last.s = World /\ last.res = "Ok"
    /\ writer.kind = "Transformer" /\ writer.transformation = "Upper"
    /\ writer.writer.kind = "slice" /\ remaining(writer.writer) = 0
    /\ Written(last.before) = SubSeq(HELLO_WORLD, 1, Len(Hello))
    /\ Written(writer) = HELLO_WORLD

(***************************************************************************)
(* C11: a Transformed value rewrites its own output only.  Whatever is     *)
(* rendered, the bytes added to the sink are the text of the values in     *)
(* order, where the text of a Transformed value is its value's text put    *)
(* through its transformation and the text of every other value is left as *)
(* it is (all of it on success, a prefix of it on overflow); the size hint *)
(* of a Transformed value is transform_size_hint of its value's size hint; *)
(* "Hello" then " world!".transformed(Upper) gives "Hello WORLD!".         *)
(***************************************************************************)
\* The chars a value stands for under a strategy.
RECURSIVE TextOf(_, _)
TextOf(v, strategy) ==
    CASE v.k \in {"str", "String"} -> v.s
      [] v.k = "char" -> <<v.c>>
      [] v.k = "int" ->
            IF Signed(v.ty) /\ v.bytes[1] >= 128
            THEN <<45>> \o Digits(Negate(v.bytes, 1))
            ELSE Digits(v.bytes)
      [] v.k = "Empty" -> <<>>
      [] v.k = "Label" -> LabelText(v.s, strategy)
      [] v.k = "Chain" -> TextOf(v.val0, strategy) \o TextOf(v.val1, strategy)
      [] v.k = "Instantiated" -> TextOf(v.value, v.strategy)
      [] v.k = "Transformed" ->
            TransformedChars(v.transformation, TextOf(v.value, strategy))

RECURSIVE TextOfAll(_, _)
TextOfAll(vs, strategy) ==
    IF vs = <<>> THEN <<>>
    ELSE TextOf(Head(vs), strategy) \o TextOfAll(Tail(vs), strategy)

\* What the Transformers of sink w make of a text.
RECURSIVE Through(_, _)
Through(w, text) ==
    IF w.kind = "Transformer"
    THEN Through(w.writer, TransformedChars(w.transformation, text))
    ELSE text

\* v holds a Transformed value.
RECURSIVE HasTransformed(_)
HasTransformed(v) ==
    CASE v.k = "Transformed" -> TRUE
      [] v.k = "Chain" -> HasTransformed(v.val0) \/ HasTransformed(v.val1)
      [] v.k = "Instantiated" -> HasTransformed(v.value)
      [] OTHER -> FALSE

\* Every Transformed value in v has the size hint transform_size_hint makes
\* of its value's.
RECURSIVE HintsTransformed(_, _)
HintsTransformed(v, strategy) ==
    CASE v.k = "Transformed" ->
            /\ size_hint(v, strategy) =
                   transform_size_hint(v.transformation, size_hint(v.value, strategy))
            /\ HintsTransformed(v.value, strategy)
      [] v.k = "Chain" ->
            HintsTransformed(v.val0, strategy) /\ HintsTransformed(v.val1, strategy)
      [] v.k = "Instantiated" -> HintsTransformed(v.value, v.strategy)
      [] OTHER -> TRUE

\* "Hello WORLD!"
Hello_WORLD == <<72, 101, 108, 108, 111, 32, 87, 79, 82, 76, 68, 33>>

C11_TransformedRewritesOnlyItself ==
    (/\ last.op \in {"fmt", "fwrite"}
     /\ \E i \in DOMAIN last.v : HasTransformed(last.v[i])) =>
        LET out == as_bytes(Through(last.before, TextOfAll(last.v, last.strategy))) IN
        /\ KeptBefore
        /\ IsPrefix(Appended, out)
        /\ last.res = "Ok" => Appended = out
        /\ \A i \in DOMAIN last.v : HintsTransformed(last.v[i], last.strategy)
        /\ (/\ last.v = <<Str(Hello), Transformed_new(Str(World), "Upper")>>
            /\ last.before = SliceSink(Len(Hello) + Len(World))) =>
               last.res = "Ok" /\ Written(writer) = Hello_WORLD

\* A chain with a plain value before and after a Transformed one has been
\* rendered whole into a sink that is no Transformer, and the transformation
\* changed the text.
C11_Witness ==
    /\ last.op = "fmt" /\ last.res = "Ok"
    /\ last.before.kind # "Transformer"
    /\ last.v[1].k = "Chain" /\ last.v[1].val0.k = "Chain"
    /\ last.v[1].val0.val1.k = "Transformed"
    /\ ~HasTransformed(last.v[1].val0.val0) /\ ~HasTransformed(last.v[1].val1)
    /\ TextOf(last.v[1].val0.val1, DISPLAY) # TextOf(last.v[1].val0.val1.value, DISPLAY)
    /\ Appended # <<>>

(***************************************************************************)
(* C12: Empty is a left and a right identity of chaining.  A Chain of      *)
(* Empty and x, in either order, leaves in the sink the bytes x alone      *)
(* leaves, returns what x alone returns and has the size hint of x;        *)
(* Empty alone writes nothing, succeeds, and has the size hint 0.          *)
(***************************************************************************)
\* Rendering the latest value did to the sink what rendering x alone does.
RendersAs(x) ==
    LET r == fmt(x, last.before, last.strategy, 0) IN
    /\ Written(writer) = Written(r.w)
    /\ last.res = r.res
    /\ size_hint(last.v[1], last.strategy) = size_hint(x, last.strategy)

C12_EmptyIsIdentity ==
    (last.op = "fmt") =>
        LET v == last.v[1] IN
        /\ (v.k = "Chain" /\ v.val0 = Empty) => RendersAs(v.val1)
        /\ (v.k = "Chain" /\ v.val1 = Empty) => RendersAs(v.val0)
        /\ (v = Empty) =>
              /\ Written(writer) = Written(last.before)
              /\ writer = last.before
              /\ last.res = "Ok"
              /\ size_hint(v, last.strategy) = 0

\* A value that writes bytes, chained after Empty, overflowed a slice that
\* held bytes already, after writing part of its output.
C12_Witness ==
    /\ last.op = "fmt" /\ last.v[1].k = "Chain"
    /\ last.v[1].val0 = Empty /\ last.v[1].val1 # Empty
    /\ last.before.kind = "slice" /\ last.before.pos > 0
    /\ last.res = "BufferOverflow"
    /\ Appended # <<>>

====
